---- MODULE Spec2Model ----
(***************************************************************************)
(* Model of the splinter driver (bspline_main.c) and of the homography     *)
(* resampling loop (splinter_transform.c).                                 *)
(*                                                                         *)
(* C strings are sequences of one-character strings; reading a string at   *)
(* an index past its length yields NUL.  Real numbers are kept exact:      *)
(* eps is a fraction num/den, coordinates are counted in half units        *)
(* (the only divisions of the driver are by 2).                            *)
(***************************************************************************)
EXTENDS Integers, Sequences, FiniteSets, TLC

(***************************************************************************)
(* Bounds of the model.                                                    *)
(***************************************************************************)
MaxDim == 2
MaxChan == 2
MaxTail == 1
MaxVals == 10
MaxOrderLen == 2

(***************************************************************************)
(* Program constants.                                                      *)
(***************************************************************************)
MAX_ORDER == 16
DEFAULT_ORDER == 11
DEFAULT_EPS == 6
NMAX == 9

NUL == "NUL"
Digits == {"0", "1", "2", "3", "4", "5", "6", "7", "8", "9"}
DigitVal == [d \in Digits |->
               CASE d = "0" -> 0 [] d = "1" -> 1 [] d = "2" -> 2 [] d = "3" -> 3
                 [] d = "4" -> 4 [] d = "5" -> 5 [] d = "6" -> 6 [] d = "7" -> 7
                 [] d = "8" -> 8 [] d = "9" -> 9]

\* s[i] of a C string: the terminating NUL from the end of the string on.
CharAt(s, i) == IF i >= 1 /\ i <= Len(s) THEN s[i] ELSE NUL

\* isspace, over the characters of the model.
IsSpace(ch) == ch = " "

\* The index of the first character of s at or after p that is not white space.
RECURSIVE SkipSpace(_, _)
SkipSpace(s, p) == IF IsSpace(CharAt(s, p)) THEN SkipSpace(s, p + 1) ELSE p

\* The digits of s from p on: <<index after the last digit, value of acc
\* followed by the digits>>.
RECURSIVE ScanDigits(_, _, _)
ScanDigits(s, p, acc) ==
    IF CharAt(s, p) \in Digits
    THEN ScanDigits(s, p + 1, 10 * acc + DigitVal[CharAt(s, p)])
    ELSE <<p, acc>>

\* A signed decimal integer at p, after optional white space, as strtol and
\* (on strings holding no '.', exponent, "inf", "nan" or "0x") strtod read it:
\* ok says whether a number was read, next is the index after it.
ScanInt(s, p) ==
    LET q == SkipSpace(s, p)
        signed == CharAt(s, q) \in {"+", "-"}
        d == IF signed THEN q + 1 ELSE q
        r == ScanDigits(s, d, 0)
    IN  [ok |-> r[1] > d,
         val |-> IF CharAt(s, q) = "-" THEN 0 - r[2] ELSE r[2],
         next |-> r[1]]

\* atoi: the leading integer of the string, 0 when there is none.
Atoi(s) == LET r == ScanInt(s, 1) IN IF r.ok THEN r.val ELSE 0

\* atof, in tenths: sign, digits, and after a '.' the first fractional digit
\* (the strings of the model carry at most one).
Atof(s) ==
    LET r == ScanInt(s, 1)
        neg == CharAt(s, SkipSpace(s, 1)) = "-"
        hasFrac == CharAt(s, r.next) = "." /\ CharAt(s, r.next + 1) \in Digits
        frac == IF hasFrac THEN DigitVal[CharAt(s, r.next + 1)] ELSE 0
        mag == (IF r.val < 0 THEN 0 - r.val ELSE r.val) * 10 + frac
    IN  IF ~r.ok THEN 0 ELSE IF neg THEN 0 - mag ELSE mag

\* strncmp(a, b, n) = 0: the first n characters agree, up to a common NUL.
RECURSIVE StrncmpEq(_, _, _, _)
StrncmpEq(a, b, n, i) ==
    IF i > n THEN TRUE
    ELSE IF CharAt(a, i) # CharAt(b, i) THEN FALSE
    ELSE IF CharAt(a, i) = NUL THEN TRUE
    ELSE StrncmpEq(a, b, n, i + 1)

\* 0 == strncmp(s, name, strlen(s))
IsPrefixArg(s, name) == StrncmpEq(s, name, Len(s), 1)

S_constant == <<"c", "o", "n", "s", "t", "a", "n", "t">>
S_periodic == <<"p", "e", "r", "i", "o", "d", "i", "c">>
S_hsymmetric == <<"h", "s", "y", "m", "m", "e", "t", "r", "i", "c">>
S_wsymmetric == <<"w", "s", "y", "m", "m", "e", "t", "r", "i", "c">>
S_hsym == <<"h", "s", "y", "m">>
S_center == <<"c", "e", "n", "t", "e", "r">>
S_auto == <<"a", "u", "t", "o">>

\* read_ext without the correction of *larger.
ReadExt_KeepLarger(boundary, larger) ==
    IF IsPrefixArg(boundary, S_constant)
    THEN [exit |-> FALSE, ext |-> "BOUNDARY_CONSTANT", larger |-> larger]
    ELSE IF IsPrefixArg(boundary, S_periodic)
    THEN [exit |-> FALSE, ext |-> "BOUNDARY_PERIODIC", larger |-> larger]
    ELSE IF IsPrefixArg(boundary, S_hsymmetric)
    THEN [exit |-> FALSE, ext |-> "BOUNDARY_HSYMMETRIC", larger |-> larger]
    ELSE IF IsPrefixArg(boundary, S_wsymmetric)
    THEN [exit |-> FALSE, ext |-> "BOUNDARY_WSYMMETRIC", larger |-> larger]
    ELSE [exit |-> TRUE, ext |-> "none", larger |-> larger]

\* read_ext: the boundary extension named by the argument and the value left
\* in *larger; exit says that the function ended the process instead.
ReadExt(boundary, larger) ==
    IF IsPrefixArg(boundary, S_constant)
    THEN [exit |-> FALSE, ext |-> "BOUNDARY_CONSTANT",
          larger |-> IF larger = 0 THEN 1 ELSE larger]
    ELSE IF IsPrefixArg(boundary, S_periodic)
    THEN [exit |-> FALSE, ext |-> "BOUNDARY_PERIODIC", larger |-> larger]
    ELSE IF IsPrefixArg(boundary, S_hsymmetric)
    THEN [exit |-> FALSE, ext |-> "BOUNDARY_HSYMMETRIC", larger |-> larger]
    ELSE IF IsPrefixArg(boundary, S_wsymmetric)
    THEN [exit |-> FALSE, ext |-> "BOUNDARY_WSYMMETRIC", larger |-> larger]
    ELSE [exit |-> TRUE, ext |-> "none", larger |-> larger]

\* fix_precision: eps and the result are fractions num/den.
RECURSIVE FixPrecisionLoop(_, _, _)
FixPrecisionLoop(eps, i, tmpDen) ==
    IF i * eps.den < eps.num
    THEN FixPrecisionLoop(eps, i + 1, tmpDen * 10)
    ELSE [num |-> 1, den |-> tmpDen]

FixPrecision(eps) ==
    IF eps.num >= eps.den THEN FixPrecisionLoop(eps, 0, 1) ELSE eps

(***************************************************************************)
(* parse_doubles.  The string lies in memory followed by its NUL and by    *)
(* whatever the process holds after it (tail, itself NUL-terminated);      *)
(* a read outside this memory faults.  w is not initialised: w0 is the     *)
(* value it happens to hold.                                               *)
(***************************************************************************)
Memory(s, tail) == s \o <<NUL>> \o tail \o <<NUL>>

\* sscanf(s, "%lg%c%n", t+i, &c, &w) at index pos: ret is the number of
\* conversions (0 also stands for EOF), w is assigned only when ret = 2;
\* used is the number of characters read by the conversions that succeeded.
Sscanf_lg_c_n(mem, pos) ==
    LET r == ScanInt(mem, pos)
    IN  IF ~r.ok THEN [ret |-> 0, setw |-> FALSE, w |-> 0, used |-> 0]
        ELSE IF CharAt(mem, r.next) = NUL
        THEN [ret |-> 1, setw |-> FALSE, w |-> 0, used |-> r.next - pos]
        ELSE [ret |-> 2, setw |-> TRUE, w |-> r.next + 1 - pos,
              used |-> r.next + 1 - pos]

\* The loop of parse_doubles from index pos with i values read and w as it
\* stands.  ret: the value returned; crash: the process faulted instead;
\* past: s was moved beyond the NUL of the string (index slen + 1) or before
\* its start; exact: every step moved s by what it had read.
RECURSIVE ParseDoublesLoop(_, _, _, _, _, _, _, _)
ParseDoublesLoop(mem, slen, nmax, pos, i, w, past, exact) ==
    IF ~(i < nmax)
    THEN [ret |-> i, crash |-> FALSE, past |-> past, exact |-> exact,
          called |-> TRUE]
    ELSE IF pos < 1 \/ pos > Len(mem)
    THEN [ret |-> i, crash |-> TRUE, past |-> past, exact |-> exact,
          called |-> TRUE]
    ELSE LET r == Sscanf_lg_c_n(mem, pos)
             w2 == IF r.setw THEN r.w ELSE w
             pos2 == pos + w2
         IN  IF ~(1 <= r.ret)
             THEN [ret |-> i, crash |-> FALSE, past |-> past, exact |-> exact,
                   called |-> TRUE]
             ELSE ParseDoublesLoop(mem, slen, nmax, pos2, i + 1, w2,
                                   past \/ pos2 > slen + 1 \/ pos2 < 1,
                                   exact /\ w2 = r.used)

ParseDoubles(s, nmax, w0, tail) ==
    ParseDoublesLoop(Memory(s, tail), Len(s), nmax, 1, 0, w0, FALSE, TRUE)

(***************************************************************************)
(* parse_geometry.  x, y and the images of points under the homography are *)
(* in half units; w and h are integers.  apply_homography belongs to the   *)
(* homography tools; here H is the map it applies, a scaling followed by a *)
(* translation: p |-> (sx * p[1] + tx, sy * p[2] + ty).                    *)
(***************************************************************************)
\* sscanf(g, "%dx%d%lg%lg", w, h, x, y), given what each conversion reads
\* (r1, r2: %d; r3, r4: %lg): n conversions, and w, h, x and y with the
\* values of those that succeeded stored in them.
GeometryFields(g, w, h, r1, r2, r3, r4) ==
    IF ~r1.ok THEN [n |-> 0, w |-> w, h |-> h, x |-> 0, y |-> 0]
    ELSE IF CharAt(g, r1.next) # "x" \/ ~r2.ok
    THEN [n |-> 1, w |-> r1.val, h |-> h, x |-> 0, y |-> 0]
    ELSE IF ~r3.ok
    THEN [n |-> 2, w |-> r1.val, h |-> r2.val, x |-> 0, y |-> 0]
    ELSE IF ~r4.ok
    THEN [n |-> 3, w |-> r1.val, h |-> r2.val, x |-> 2 * r3.val, y |-> 0]
    ELSE [n |-> 4, w |-> r1.val, h |-> r2.val, x |-> 2 * r3.val,
          y |-> 2 * r4.val]

Sscanf_g3(g, w, h, r1, r2, r3) ==
    GeometryFields(g, w, h, r1, r2, r3, ScanInt(g, r3.next))
Sscanf_g2(g, w, h, r1, r2) == Sscanf_g3(g, w, h, r1, r2, ScanInt(g, r2.next))
Sscanf_g1(g, w, h, r1) == Sscanf_g2(g, w, h, r1, ScanInt(g, r1.next + 1))

\* *x = *y = 0; n = sscanf(g, "%dx%d%lg%lg", w, h, x, y)
Sscanf_geometry(g, w, h) == Sscanf_g1(g, w, h, ScanInt(g, 1))

\* The loop over the corners 1..3 for coordinate s (0: x, 1: y) of the
\* bounding box: <<min, max>> from <<lo, hi>>.
RECURSIVE BoundingBoxLoop(_, _, _, _, _)
BoundingBoxLoop(hc, s, i, lo, hi) ==
    IF ~(i < 4) THEN <<lo, hi>>
    ELSE LET v == hc[2 * i + s + 1]
         IN  IF v < lo THEN BoundingBoxLoop(hc, s, i + 1, v, hi)
             ELSE IF v > hi THEN BoundingBoxLoop(hc, s, i + 1, lo, v)
             ELSE BoundingBoxLoop(hc, s, i + 1, lo, hi)

\* (int)ceil(d) of a length d >= 0 given in half units.
CeilHalf(d) == (d + 1) \div 2

\* apply_homography(hc, c, H)
ApplyHomography(H, c) == <<H.sx * c[1] + H.tx, H.sy * c[2] + H.ty>>

\* The images of the four corners of the w x h rectangle, x and y interleaved
\* (hc[0..7]).
Corners(w, h, H) ==
    LET img(i) == ApplyHomography(H, <<2 * ((i % 2) * w), 2 * ((i \div 2) * h)>>)
    IN  [m \in 1..8 |-> img((m - 1) \div 2)[((m - 1) % 2) + 1]]

\* The result of the "center" case, hc being the image of the centre.
GeometryCentre(w, h, hc) ==
    [ret |-> 0, x |-> hc[1] - w, y |-> hc[2] - h, w |-> w, h |-> h]

\* The result of the "auto" case from the bounding box, bx = <<minx, maxx>>
\* and by = <<miny, maxy>>.
GeometryBox(bx, by) ==
    [ret |-> 0, x |-> bx[1], y |-> by[1],
     w |-> CeilHalf(bx[2] - bx[1]), h |-> CeilHalf(by[2] - by[1])]

GeometryAuto(hc) ==
    GeometryBox(BoundingBoxLoop(hc, 0, 1, hc[1], hc[1]),
                BoundingBoxLoop(hc, 1, 1, hc[2], hc[2]))

\* The result of the explicit case, r being what sscanf read: failure unless
\* 2 or 4 conversions were made and w and h are positive.
GeometryExplicit(r) ==
    [ret |-> IF (r.n # 2 /\ r.n # 4) \/ r.w <= 0 \/ r.h <= 0 THEN 1 ELSE 0,
     x |-> r.x, y |-> r.y, w |-> r.w, h |-> r.h]

\* parse_geometry(&x, &y, &w, &h, H, g): the value returned and what is left
\* in x, y, w and h.
ParseGeometry(x, y, w, h, H, g) ==
    IF IsPrefixArg(g, S_center)
    THEN GeometryCentre(w, h, ApplyHomography(H, <<x + w, y + h>>))
    ELSE IF IsPrefixArg(g, S_auto)
    THEN GeometryAuto(Corners(w, h, H))
    ELSE GeometryExplicit(Sscanf_geometry(g, w, h))

(***************************************************************************)
(* State.                                                                  *)
(***************************************************************************)
VARIABLES
    argc, argv,          \* the command line: argv holds the strings of
                         \* argv[1] (homography) and argv[4..8]
    pc, status,          \* position in main; exit status once pc = "exit"
    order, eps, larger, ext, nparams, pd,   \* locals of main
    img,                 \* w, h, c of the image read
    geo,                 \* x0, y0, wout, hout
    outSize, written,    \* elements allocated for out; output image written
    tpc, tp,             \* position in and arguments of splinter_homography*
    planState,           \* "none", "built", "failed" or "destroyed"
    planArgs,            \* what splinter_plan was called with
    nPlan, nEval, nDestroy,   \* calls of splinter_plan, splinter, splinter_destroy_plan
    evalOn,              \* the plan states splinter was called in
    jj, ii, outOff,      \* loop counters; displacement of the pointer out
    out, nWrites,        \* the buffer out; stores made to each of its elements
    badWrite             \* a store was made outside the buffer

mainVars == <<argc, argv, pc, status, order, eps, larger, ext, nparams, pd,
              img, geo, outSize, written>>
xformVars == <<tpc, tp, planState, planArgs, nPlan, nEval, nDestroy, evalOn,
               jj, ii, outOff, out, nWrites, badWrite>>
vars == <<mainVars, xformVars>>

NoPlanArgs == [n |-> 0, boundary |-> "none", eps |-> [num |-> 0, den |-> 1],
               larger |-> 0, w |-> 0, h |-> 0, c |-> 0]
NoTp == [x0 |-> 0, y0 |-> 0, wout |-> 0, hout |-> 0, w |-> 0, h |-> 0, c |-> 0,
         n |-> 0, boundary |-> "none", eps |-> [num |-> 0, den |-> 1],
         larger |-> 0]
NoPd == [ret |-> 0, crash |-> FALSE, past |-> FALSE, exact |-> TRUE,
         called |-> FALSE]
Unwritten == [tag |-> "unwritten", k |-> 0, px |-> 0, py |-> 0]

\* The value splinter returns for channel k at the image of (px, py) (half
\* units) under the inverted homography.
Splinter(k, px, py) == [tag |-> "value", k |-> k, px |-> px, py |-> py]
Garbage(k) == [tag |-> "garbage", k |-> k, px |-> 0, py |-> 0]

(***************************************************************************)
(* main (bspline_main.c).                                                  *)
(***************************************************************************)
\* argc outside 4..9: usage and failure.
MainCheckArgc ==
    /\ pc = "start"
    /\ IF ~(4 <= argc /\ argc <= 9)
       THEN pc' = "exit" /\ status' = "EXIT_FAILURE"
       ELSE pc' = "read_params" /\ UNCHANGED status
    /\ UNCHANGED <<argc, argv, order, eps, larger, ext, nparams, pd, img, geo,
                   outSize, written, xformVars>>

\* Read parameters, and refuse an order above MAX_ORDER.
MainReadParams ==
    /\ pc = "read_params"
    /\ order' = IF argc > 4 THEN Atoi(argv.order) ELSE DEFAULT_ORDER
    /\ eps' = [num |-> IF argc > 6 THEN Atof(argv.eps) ELSE DEFAULT_EPS * 10,
               den |-> 10]
    /\ larger' = IF argc > 7 THEN Atoi(argv.larger) ELSE 0
    /\ IF order' > MAX_ORDER
       THEN pc' = "exit" /\ status' = "EXIT_FAILURE"
       ELSE pc' = "fix_precision" /\ UNCHANGED status
    /\ UNCHANGED <<argc, argv, ext, nparams, pd, img, geo, outSize, written,
                   xformVars>>

\* eps = fix_precision(eps)
MainFixPrecision ==
    /\ pc = "fix_precision"
    /\ eps' = FixPrecision(eps)
    /\ pc' = "read_ext"
    /\ UNCHANGED <<argc, argv, status, order, larger, ext, nparams, pd, img,
                   geo, outSize, written, xformVars>>

\* The boundary string main passes to read_ext.
BoundaryArg == IF argc > 5 THEN argv.boundary ELSE S_hsym

\* ext = read_ext(boundary, &larger), which exits on an unknown name.
MainReadExt ==
    /\ pc = "read_ext"
    /\ LET r == ReadExt(BoundaryArg, larger)
       IN  IF r.exit
           THEN pc' = "exit" /\ status' = "EXIT_FAILURE"
                /\ UNCHANGED <<ext, larger>>
           ELSE pc' = "parse_doubles" /\ ext' = r.ext /\ larger' = r.larger
                /\ UNCHANGED status
    /\ UNCHANGED <<argc, argv, order, eps, nparams, pd, img, geo, outSize,
                   written, xformVars>>

\* What w may hold before its first assignment, and what may follow the
\* homography string in memory.
W0Set == {-1, 0, 2}
TailChars == {"1", " "}
TailSet == UNION {[1..k -> TailChars] : k \in 0..MaxTail}

\* Read transformation: nparams = parse_doubles(homo, 9, input_params), and
\* failure unless nparams is 9.
MainParseDoubles ==
    /\ pc = "parse_doubles"
    /\ \E w0 \in W0Set, tail \in TailSet :
         LET r == ParseDoubles(argv.homography, NMAX, w0, tail)
         IN  /\ pd' = r
             /\ nparams' = r.ret
             /\ IF r.crash
                THEN pc' = "exit" /\ status' = "SIGSEGV"
                ELSE IF r.ret # NMAX
                THEN pc' = "exit" /\ status' = "EXIT_FAILURE"
                ELSE pc' = "read_image" /\ UNCHANGED status
    /\ UNCHANGED <<argc, argv, order, eps, larger, ext, img, geo, outSize,
                   written, xformVars>>

\* Read input image (iio), then x0 = y0 = 0, wout = w, hout = h.
MainReadImage ==
    /\ pc = "read_image"
    /\ \E w \in 1..MaxDim, h \in 1..MaxDim, c \in 1..MaxChan :
         /\ img' = [w |-> w, h |-> h, c |-> c]
         /\ geo' = [x0 |-> 0, y0 |-> 0, wout |-> w, hout |-> h]
    /\ pc' = "geometry"
    /\ UNCHANGED <<argc, argv, status, order, eps, larger, ext, nparams, pd,
                   outSize, written, xformVars>>

\* The maps the nine coefficients may stand for.
Homographies ==
    [sx : {0, 1}, sy : {0, 1}, tx : {0, 1}, ty : {0, -2}]

\* main going on whatever parse_geometry returned.
GeometryParsed_NoCheck(r) ==
    /\ geo' = [x0 |-> r.x, y0 |-> r.y, wout |-> r.w, hout |-> r.h]
    /\ pc' = "alloc"
    /\ UNCHANGED status

\* What main does with the outcome r of parse_geometry.
GeometryParsed(r) ==
    /\ geo' = [x0 |-> r.x, y0 |-> r.y, wout |-> r.w, hout |-> r.h]
    /\ IF r.ret # 0
       THEN pc' = "exit" /\ status' = "EXIT_FAILURE"
       ELSE pc' = "alloc" /\ UNCHANGED status

\* if(geom && parse_geometry(...)) failure.
MainParseGeometry ==
    /\ pc = "geometry"
    /\ IF argc > 8
       THEN \E H \in Homographies :
              GeometryParsed(ParseGeometry(geo.x0, geo.y0, geo.wout, geo.hout,
                                           H, argv.geom))
       ELSE pc' = "alloc" /\ UNCHANGED <<geo, status>>
    /\ UNCHANGED <<argc, argv, order, eps, larger, ext, nparams, pd, img,
                   outSize, written, xformVars>>

\* The arguments main passes to splinter_homography_geom, of which
\* splinter_homography takes x0, y0, wout and hout from the image.
CallArgs ==
    [x0 |-> geo.x0, y0 |-> geo.y0, wout |-> geo.wout, hout |-> geo.hout,
     w |-> img.w, h |-> img.h, c |-> img.c, n |-> order, boundary |-> ext,
     eps |-> eps, larger |-> larger]

\* Npixels = wout*hout*c; out = malloc(Npixels); call of the transform.
MainAllocAndCall ==
    /\ pc = "alloc"
    /\ outSize' = geo.wout * geo.hout * img.c
    /\ out' = [idx \in 0..(outSize' - 1) |-> Unwritten]
    /\ nWrites' = [idx \in 0..(outSize' - 1) |-> 0]
    /\ tp' = CallArgs
    /\ tpc' = IF argc > 8 THEN "geom" ELSE "homography"
    /\ pc' = "in_call"
    /\ UNCHANGED <<argc, argv, status, order, eps, larger, ext, nparams, pd,
                   img, geo, written, planState, planArgs, nPlan, nEval,
                   nDestroy, evalOn, jj, ii, outOff, badWrite>>

\* Back from the transform: write the output image, free, EXIT_SUCCESS.
MainWriteAndExit ==
    /\ pc = "in_call"
    /\ tpc = "returned"
    /\ written' = TRUE
    /\ pc' = "exit"
    /\ status' = "EXIT_SUCCESS"
    /\ UNCHANGED <<argc, argv, order, eps, larger, ext, nparams, pd, img, geo,
                   outSize, xformVars>>

(***************************************************************************)
(* splinter_homography and splinter_homography_geom (splinter_transform.c) *)
(***************************************************************************)
\* splinter_homography: the same with x0 = y0 = 0, wout = w, hout = h.
SplinterHomography ==
    /\ tpc = "homography"
    /\ tp' = [tp EXCEPT !.x0 = 0, !.y0 = 0, !.wout = tp.w, !.hout = tp.h]
    /\ tpc' = "geom"
    /\ UNCHANGED <<mainVars, planState, planArgs, nPlan, nEval, nDestroy,
                   evalOn, jj, ii, outOff, out, nWrites, badWrite>>

\* splinter_plan either builds the plan or fails for lack of memory and
\* returns no plan.
SplinterPlanOutcomes == {"built", "failed"}

\* Invert the homography and call splinter_plan; then outp is allocated and
\* the loops start.  The value returned is not tested.
GeomBuildPlan ==
    /\ tpc = "geom"
    /\ \E outcome \in SplinterPlanOutcomes : planState' = outcome
    /\ planArgs' = [n |-> tp.n, boundary |-> tp.boundary, eps |-> tp.eps,
                    larger |-> tp.larger, w |-> tp.w, h |-> tp.h, c |-> tp.c]
    /\ nPlan' = nPlan + 1
    /\ jj' = 0
    /\ ii' = 0
    /\ tpc' = "loop"
    /\ UNCHANGED <<mainVars, tp, nEval, nDestroy, evalOn, outOff, out, nWrites,
                   badWrite>>

\* The loop body with the stores of channel k made at out[k*wout].
StoreIndex_RowStride(off, k, wout, hout) == off + k * wout

\* The element of the buffer that out[k*wout*hout] is once the pointer out
\* was incremented off times.
StoreIndex(off, k, wout, hout) == off + k * wout * hout

\* The buffer after the stores of one pixel: outp[k] for each channel k.
StorePixel(buf, off, outp) ==
    [idx \in DOMAIN buf |->
       IF \E k \in 0..(tp.c - 1) : StoreIndex(off, k, tp.wout, tp.hout) = idx
       THEN outp[CHOOSE k \in 0..(tp.c - 1) :
                   /\ StoreIndex(off, k, tp.wout, tp.hout) = idx
                   /\ \A k2 \in 0..(tp.c - 1) :
                        StoreIndex(off, k2, tp.wout, tp.hout) = idx => k2 <= k]
       ELSE buf[idx]]

CountStores(cnt, off) ==
    [idx \in DOMAIN cnt |->
       cnt[idx] + Cardinality({k \in 0..(tp.c - 1) :
                                 StoreIndex(off, k, tp.wout, tp.hout) = idx})]

StoresOutside(buf, off) ==
    \E k \in 0..(tp.c - 1) :
       StoreIndex(off, k, tp.wout, tp.hout) \notin DOMAIN buf

\* One pixel (i, j): p = (i+x0, j+y0), q its image under the inverted
\* homography, outp = splinter at q, the stores, ++out.
GeomPixel ==
    /\ tpc = "loop"
    /\ jj < tp.hout
    /\ ii < tp.wout
    /\ planState = "built"
    /\ LET px == 2 * ii + tp.x0
           py == 2 * jj + tp.y0
           outp == [k \in 0..(tp.c - 1) |-> Splinter(k, px, py)]
       IN  /\ out' = StorePixel(out, outOff, outp)
           /\ nWrites' = CountStores(nWrites, outOff)
           /\ badWrite' = (badWrite \/ StoresOutside(out, outOff))
    /\ nEval' = nEval + 1
    /\ evalOn' = evalOn \cup {planState}
    /\ outOff' = outOff + 1
    /\ ii' = ii + 1
    /\ UNCHANGED <<mainVars, tpc, tp, planState, planArgs, nPlan, nDestroy, jj>>

\* The same on a plan that was not built: splinter reads through an invalid
\* handle, and either the process faults or values of no meaning come back.
GeomPixelNoPlan ==
    /\ tpc = "loop"
    /\ jj < tp.hout
    /\ ii < tp.wout
    /\ planState # "built"
    /\ nEval' = nEval + 1
    /\ evalOn' = evalOn \cup {planState}
    /\ \E fault \in BOOLEAN :
         IF fault
         THEN /\ tpc' = "faulted"
              /\ pc' = "exit"
              /\ status' = "SIGSEGV"
              /\ UNCHANGED <<out, nWrites, badWrite, outOff, ii>>
         ELSE /\ out' = StorePixel(out, outOff,
                                   [k \in 0..(tp.c - 1) |-> Garbage(k)])
              /\ nWrites' = CountStores(nWrites, outOff)
              /\ badWrite' = (badWrite \/ StoresOutside(out, outOff))
              /\ outOff' = outOff + 1
              /\ ii' = ii + 1
              /\ UNCHANGED <<tpc, pc, status>>
    /\ UNCHANGED <<argc, argv, order, eps, larger, ext, nparams, pd, img, geo,
                   outSize, written, tp, planState, planArgs, nPlan, nDestroy,
                   jj>>

\* End of the inner loop: next row.
GeomNextRow ==
    /\ tpc = "loop"
    /\ jj < tp.hout
    /\ ~(ii < tp.wout)
    /\ jj' = jj + 1
    /\ ii' = 0
    /\ UNCHANGED <<mainVars, tpc, tp, planState, planArgs, nPlan, nEval,
                   nDestroy, evalOn, outOff, out, nWrites, badWrite>>

\* End of the outer loop: free(outp), splinter_destroy_plan(plan), return.
GeomDestroyPlan ==
    /\ tpc = "loop"
    /\ ~(jj < tp.hout)
    /\ planState = "built"
    /\ nDestroy' = nDestroy + 1
    /\ planState' = "destroyed"
    /\ tpc' = "returned"
    /\ UNCHANGED <<mainVars, tp, planArgs, nPlan, nEval, evalOn, jj, ii,
                   outOff, out, nWrites, badWrite>>

\* The same on a plan that was not built: splinter_destroy_plan releases
\* through an invalid handle, and the process faults or goes on.
GeomDestroyNoPlan ==
    /\ tpc = "loop"
    /\ ~(jj < tp.hout)
    /\ planState # "built"
    /\ nDestroy' = nDestroy + 1
    /\ \E fault \in BOOLEAN :
         IF fault
         THEN /\ tpc' = "faulted"
              /\ pc' = "exit"
              /\ status' = "SIGSEGV"
         ELSE /\ tpc' = "returned"
              /\ UNCHANGED <<pc, status>>
    /\ UNCHANGED <<argc, argv, order, eps, larger, ext, nparams, pd, img, geo,
                   outSize, written, tp, planState, planArgs, nPlan, nEval,
                   evalOn, jj, ii, outOff, out, nWrites, badWrite>>

(***************************************************************************)
(* Command lines.                                                          *)
(***************************************************************************)
SeqsUpTo(A, n) == UNION {[1..k -> A] : k \in 0..n}
Prefixes(name) == {SubSeq(name, 1, k) : k \in 0..Len(name)}

\* The homography strings: n values, each followed by the separator sep, the
\* last one only when trail is set.
RECURSIVE HomographyString(_, _, _)
HomographyString(n, sep, trail) ==
    IF n = 0 THEN <<>>
    ELSE HomographyString(n - 1, sep, TRUE)
         \o (IF n % 3 = 1 THEN <<"1">> ELSE IF n % 3 = 2 THEN <<"0">>
             ELSE <<"-", "1">>)
         \o (IF trail THEN <<sep>> ELSE <<>>)

HomographyArgs ==
    {HomographyString(n, sep, trail) :
       n \in 0..MaxVals, sep \in {" ", ";"}, trail \in BOOLEAN}
    \cup {<<"#">>, <<"1", " ", "#">>, <<"-">>}
OrderArgs == SeqsUpTo({"-", "1", "7", "x"}, MaxOrderLen)
BoundaryNames == {S_constant, S_periodic, S_hsymmetric, S_wsymmetric}
BoundaryArgs ==
    LET pre == UNION {Prefixes(name) : name \in BoundaryNames}
    IN  pre \cup {Append(b, "x") : b \in pre} \cup {<<"s">>, <<"c", "p">>}
EpsArgs ==
    {sign \o <<d>> \o frac :
       sign \in {<<>>, <<"-">>}, d \in {"0", "1", "2", "6"},
       frac \in {<<>>, <<".", "5">>}} \cup {<<"x">>}
LargerArgs == {<<"0">>, <<"1">>, <<"-", "1">>}
GeomArgs ==
    Prefixes(S_center) \cup Prefixes(S_auto)
    \cup {<<"2", "x", "1">>, <<"1", "x", "2", "+", "1", "-", "1">>,
          <<"0", "x", "1">>, <<"1", "x", "-", "1">>, <<"x">>, <<"2", "x">>,
          <<"1", "x", "1", "+", "1">>, <<"2", "x", "2", "#">>,
          <<"c", "x">>, <<"a", "u", "t", "o", "s">>}

H9 == HomographyString(NMAX, " ", FALSE)
CoreHomography == {H9, HomographyString(NMAX - 1, " ", FALSE)}
CoreOrder == {<<"3">>, <<"1", "7">>}
CoreBoundary == {S_hsym, <<"x">>}
CoreEps == {<<"6">>}
CoreLarger == {<<"0">>}
CoreGeom == {<<"2", "x", "1">>, <<"x">>}

\* The command lines of the model: in each, the arguments in focus range
\* over all their values and the others over a few; those with fewer than
\* the 9 arguments (focus "argc") are made of the latter only.
Focuses == {"argc", "order", "boundary", "eps", "homography", "geometry"}
ArgvSet(focus) ==
    [homography : IF focus = "homography" THEN HomographyArgs ELSE CoreHomography,
     order : IF focus = "order" THEN OrderArgs ELSE CoreOrder,
     boundary : IF focus = "boundary" THEN BoundaryArgs ELSE CoreBoundary,
     eps : IF focus = "eps" THEN EpsArgs ELSE CoreEps,
     larger : IF focus = "boundary" THEN LargerArgs ELSE CoreLarger,
     geom : IF focus = "geometry" THEN GeomArgs ELSE CoreGeom]

\* argv[k] exists only for k < argc: the arguments that are absent are
\* empty here and never read.
Absent(a, n) ==
    [a EXCEPT !.order = IF n <= 4 THEN <<>> ELSE @,
              !.boundary = IF n <= 5 THEN <<>> ELSE @,
              !.eps = IF n <= 6 THEN <<>> ELSE @,
              !.larger = IF n <= 7 THEN <<>> ELSE @,
              !.geom = IF n <= 8 THEN <<>> ELSE @]

XformIdle ==
    /\ tpc = "idle"
    /\ tp = NoTp
    /\ planState = "none"
    /\ planArgs = NoPlanArgs
    /\ nPlan = 0
    /\ nEval = 0
    /\ nDestroy = 0
    /\ evalOn = {}
    /\ jj = 0
    /\ ii = 0
    /\ outOff = 0
    /\ out = <<>>
    /\ nWrites = <<>>
    /\ badWrite = FALSE

Init ==
    /\ \E focus \in Focuses :
         /\ argc \in IF focus = "argc" THEN 3..10 ELSE {9}
         /\ \E a \in ArgvSet(focus) : argv = Absent(a, argc)
    /\ pc = "start"
    /\ status = "running"
    /\ order = 0
    /\ eps = [num |-> 0, den |-> 10]
    /\ larger = 0
    /\ ext = "none"
    /\ nparams = 0
    /\ pd = NoPd
    /\ img = [w |-> 0, h |-> 0, c |-> 0]
    /\ geo = [x0 |-> 0, y0 |-> 0, wout |-> 0, hout |-> 0]
    /\ outSize = 0
    /\ written = FALSE
    /\ XformIdle

Next ==
    \/ MainCheckArgc
    \/ MainReadParams
    \/ MainFixPrecision
    \/ MainReadExt
    \/ MainParseDoubles
    \/ MainReadImage
    \/ MainParseGeometry
    \/ MainAllocAndCall
    \/ SplinterHomography
    \/ GeomBuildPlan
    \/ GeomPixel
    \/ GeomPixelNoPlan
    \/ GeomNextRow
    \/ GeomDestroyPlan
    \/ GeomDestroyNoPlan
    \/ MainWriteAndExit

Spec == Init /\ [][Next]_vars

(***************************************************************************)
(* Properties.                                                             *)
(***************************************************************************)
Exts == {"BOUNDARY_CONSTANT", "BOUNDARY_PERIODIC", "BOUNDARY_HSYMMETRIC",
         "BOUNDARY_WSYMMETRIC"}

\* The arguments as the user gave them.
UserLarger == IF argc > 7 THEN Atoi(argv.larger) ELSE 0
UserEps == IF argc > 6 THEN Atof(argv.eps) ELSE DEFAULT_EPS * 10

\* The number of numeric values a string holds: values each followed by one
\* separator character, except possibly the last.
RECURSIVE CountValues(_, _)
CountValues(s, p) ==
    LET r == ScanInt(s, p)
    IN  IF ~r.ok THEN 0
        ELSE IF CharAt(s, r.next) = NUL THEN 1
        ELSE 1 + CountValues(s, r.next + 1)

RECURSIVE Pow10(_)
Pow10(k) == IF k = 0 THEN 1 ELSE 10 * Pow10(k - 1)

\* s is a non-empty prefix of name.
NonEmptyPrefix(s, name) ==
    /\ Len(s) >= 1
    /\ Len(s) <= Len(name)
    /\ SubSeq(name, 1, Len(s)) = s

\* The boundary a non-empty prefix names, the first in the order constant,
\* periodic, hsymmetric, wsymmetric; "none" for any other string.
NamedExt(s) ==
    IF NonEmptyPrefix(s, S_constant) THEN "BOUNDARY_CONSTANT"
    ELSE IF NonEmptyPrefix(s, S_periodic) THEN "BOUNDARY_PERIODIC"
    ELSE IF NonEmptyPrefix(s, S_hsymmetric) THEN "BOUNDARY_HSYMMETRIC"
    ELSE IF NonEmptyPrefix(s, S_wsymmetric) THEN "BOUNDARY_WSYMMETRIC"
    ELSE "none"

IdentityH == [sx |-> 1, sy |-> 1, tx |-> 0, ty |-> 0]

Min2(a, b) == IF a < b THEN a ELSE b

\* The pixel (i, j) has been through the loop body.
PixelDone(i, j) == j < jj \/ (j = jj /\ i < ii)

\* C1: in every run of splinter_homography_geom one Plan is built, splinter
\* is called wout*hout times, each time on the built Plan and before it is
\* destroyed, and the Plan is destroyed once, after the last evaluation.
C1_BuildEvaluateDestroy ==
    /\ nPlan <= 1
    /\ nDestroy <= 1
    /\ evalOn \subseteq {"built"}
    /\ (tpc = "loop" => nPlan = 1 /\ nDestroy = 0 /\ planState = "built")
    /\ (tpc = "returned" =>
          /\ nPlan = 1
          /\ nDestroy = 1
          /\ planState = "destroyed"
          /\ nEval = tp.wout * tp.hout)

\* The part of C1 that the code keeps: the calls are made in this order and
\* in these numbers, and when the Plan was built every evaluation is on it.
C1_CallOrder ==
    /\ nPlan <= 1
    /\ nDestroy <= 1
    /\ (nEval > 0 => nPlan = 1)
    /\ (nDestroy = 1 => tpc \in {"returned", "faulted"})
    /\ (tpc = "loop" => nPlan = 1 /\ nEval = jj * tp.wout + ii)
    /\ (tpc = "returned" => nPlan = 1 /\ nEval = tp.wout * tp.hout)
    /\ (planState \in {"built", "destroyed"} => evalOn \subseteq {"built"})

\* C2: once pixel (i, j) is done, out[k*wout*hout + j*wout + i] holds what
\* the evaluation at the image of (i+x0, j+y0) returned for channel k; each
\* element of out is stored at most once, all of them once at the return,
\* none outside the wout*hout*c elements that main allocated.
C2_PlanarStores ==
    /\ ~badWrite
    /\ \A idx \in DOMAIN out : nWrites[idx] <= 1
    /\ (tpc \in {"geom", "loop", "returned"} =>
          /\ outSize = tp.wout * tp.hout * tp.c
          /\ DOMAIN out = 0..(tp.wout * tp.hout * tp.c - 1))
    /\ (tpc \in {"loop", "returned"} =>
          \A j \in 0..(tp.hout - 1), i \in 0..(tp.wout - 1), k \in 0..(tp.c - 1) :
             LET idx == k * tp.wout * tp.hout + j * tp.wout + i
             IN  IF PixelDone(i, j)
                 THEN /\ nWrites[idx] = 1
                      /\ out[idx] = IF planState = "failed" THEN Garbage(k)
                                    ELSE Splinter(k, 2 * i + tp.x0, 2 * j + tp.y0)
                 ELSE nWrites[idx] = 0)
    /\ (tpc = "returned" => \A idx \in DOMAIN out : nWrites[idx] = 1)

C2_Witness ==
    /\ tpc = "returned"
    /\ planState = "destroyed"
    /\ tp.wout >= 2
    /\ tp.hout >= 2
    /\ tp.c >= 2
    /\ tp.x0 # 0
    /\ \A idx \in DOMAIN out : out[idx].tag = "value"

\* C3: when splinter_plan fails, no evaluation is made, no output image is
\* written and the process does not end with a success status.
C3_PlanFailureIsFatal ==
    planState = "failed" =>
        /\ nEval = 0
        /\ ~written
        /\ status # "EXIT_SUCCESS"

\* C4: the order passed to splinter_plan is in 0..MAX_ORDER.
C4_OrderInRange == nPlan > 0 => planArgs.n \in 0..MAX_ORDER

\* C5: splinter_plan is never called with the constant boundary and larger
\* = 0; with the other boundaries larger is what the user gave, from the
\* return of read_ext on.
C5_ConstantForcesLarger ==
    /\ (nPlan > 0 /\ planArgs.boundary = "BOUNDARY_CONSTANT" =>
          planArgs.larger # 0)
    /\ (nPlan > 0 /\ planArgs.boundary # "BOUNDARY_CONSTANT" =>
          planArgs.larger = UserLarger)
    /\ (ext \in Exts \ {"BOUNDARY_CONSTANT"} => larger = UserLarger)

C5_Witness ==
    /\ nPlan > 0
    /\ planArgs.boundary = "BOUNDARY_CONSTANT"
    /\ UserLarger = 0
    /\ planArgs.larger = 1

\* C6: main reads the image only when the homography string holds 9
\* coefficients, and ends with EXIT_FAILURE for every other string.
C6_ExactlyNineCoefficients ==
    /\ (img.w > 0 => CountValues(argv.homography, 1) = NMAX)
    /\ (pc = "exit" /\ CountValues(argv.homography, 1) # NMAX =>
          status = "EXIT_FAILURE")

\* C7: read_ext returns a boundary only for a non-empty prefix of one of the
\* four names, and then the one it names; for any other string the process
\* ends with EXIT_FAILURE.
C7_UnknownBoundaryExits ==
    /\ (ext # "none" => ext = NamedExt(BoundaryArg))
    /\ (pc = "exit" /\ 4 <= argc /\ argc <= 9
          /\ NamedExt(BoundaryArg) = "none" => status = "EXIT_FAILURE")

\* C8: the precision passed to splinter_plan is 10^-v for an eps argument
\* v >= 1 (v factors 0.1), and v itself for v < 1.
C8_PrecisionPowerOfTen ==
    nPlan > 0 =>
        IF UserEps >= 10
        THEN /\ UserEps % 10 = 0
             /\ planArgs.eps = [num |-> 1, den |-> Pow10(UserEps \div 10)]
        ELSE planArgs.eps = [num |-> UserEps, den |-> 10]

\* C9: a run that ends with EXIT_FAILURE has built no Plan, made no
\* evaluation and written no image; a run that reaches the construction of
\* the Plan has passed every check of the arguments.
C9_ErrorsBeforePlan ==
    /\ (status = "EXIT_FAILURE" =>
          nPlan = 0 /\ nEval = 0 /\ ~written /\ tpc = "idle")
    /\ (tpc # "idle" =>
          /\ 4 <= argc /\ argc <= 9
          /\ (argc > 4 => Atoi(argv.order) <= MAX_ORDER)
          /\ order <= MAX_ORDER
          /\ ext \in Exts
          /\ ~ReadExt(BoundaryArg, UserLarger).exit
          /\ nparams = NMAX
          /\ (argc > 8 =>
                ParseGeometry(0, 0, img.w, img.h, IdentityH, argv.geom).ret = 0))

C9_Witness ==
    /\ pc = "exit"
    /\ status = "EXIT_FAILURE"
    /\ img.w > 0
    /\ nparams = NMAX

\* C10: parse_doubles returns the number of values at the start of s, at
\* most nmax, moves s by what each step read and never past the NUL.
C10_ParseDoublesStaysInString ==
    pd.called =>
        /\ ~pd.crash
        /\ ~pd.past
        /\ pd.exact
        /\ pd.ret = Min2(CountValues(argv.homography, 1), NMAX)

====
